---- MODULE Spec2Model ----
(***************************************************************************)
(* TCP relay server (src/server.py) with the framing protocol it shares    *)
(* with the client (src/client.py).                                        *)
(*                                                                         *)
(* A byte is a one-character string; a byte string and a Python str are    *)
(* sequences of them.  "xFF" is a byte that is not valid UTF-8, "uFFFD"    *)
(* the replacement character U+FFFD, whose UTF-8 encoding is the three     *)
(* bytes "xEF" "xBF" "xBD".                                                *)
(***************************************************************************)
EXTENDS Integers, Sequences, FiniteSets, TLC

NL == "\n"
BAR == "|"

\* ------------------------------------------------------------ bounds
\* connections the accept loop takes
NConn == 3
\* frames (or malformed items) one peer puts on its stream
MaxItems == 2
\* the transport's chunk sizes range over 1..MaxChunk (and the whole stream)
MaxChunk == 2
\* peers that close their end while the server runs
MaxPeerClose == 1
\* connections of the session-lifecycle scenarios
NLife == 2
\* answers the client's user types at the prompt
MaxChoices == 2

\* ------------------------------------------------------------ sequences
Min(a, b) == IF a <= b THEN a ELSE b
Max(a, b) == IF a >= b THEN a ELSE b

\* s[:k] of Python, k of either sign
PyPrefix(s, k) ==
    IF k >= 0 THEN SubSeq(s, 1, Min(k, Len(s)))
    ELSE SubSeq(s, 1, Max(0, Len(s) + k))

\* the `del` forgotten
PyDelPrefixNone(s, k) == s

\* s after `del s[:k]` of Python, k of either sign
PyDelPrefix(s, k) ==
    SubSeq(s, Len(PyPrefix(s, k)) + 1, Len(s))

\* bytes.find / str.find of one character: the first index (from 1), or 0
Find(s, ch) ==
    IF \E i \in 1..Len(s) : s[i] = ch
    THEN CHOOSE i \in 1..Len(s) : s[i] = ch /\ \A j \in 1..(i - 1) : s[j] # ch
    ELSE 0

\* the last index of ch (from 1), or 0
RFind(s, ch) ==
    IF \E i \in 1..Len(s) : s[i] = ch
    THEN CHOOSE i \in 1..Len(s) : s[i] = ch /\ \A j \in (i + 1)..Len(s) : s[j] # ch
    ELSE 0

StartsWith(s, p) ==
    Len(s) >= Len(p) /\ SubSeq(s, 1, Len(p)) = p

Range(seq) == {seq[i] : i \in 1..Len(seq)}

RECURSIVE Flatten(_)
Flatten(ss) ==
    IF ss = <<>> THEN <<>> ELSE Head(ss) \o Flatten(Tail(ss))

\* ------------------------------------------------------------ str methods
\* str.rstrip("\n")
RECURSIVE RStripNL(_)
RStripNL(s) ==
    IF s # <<>> /\ s[Len(s)] = NL THEN RStripNL(SubSeq(s, 1, Len(s) - 1)) ELSE s

\* str.split("|"): every field
RECURSIVE Split(_)
Split(s) ==
    LET i == Find(s, BAR) IN
    IF i = 0 THEN <<s>>
    ELSE <<SubSeq(s, 1, i - 1)>> \o Split(SubSeq(s, i + 1, Len(s)))

\* split without its maxsplit
SplitOnceAll(s) == Split(s)

\* str.split("|", 1): cut at the first bar only
SplitOnce(s) ==
    LET i == Find(s, BAR) IN
    IF i = 0 THEN <<s>>
    ELSE <<SubSeq(s, 1, i - 1), SubSeq(s, i + 1, Len(s))>>

\* str.replace("\n", " ")
ReplaceNL(s) ==
    [i \in 1..Len(s) |-> IF s[i] = NL THEN " " ELSE s[i]]

\* bytes.decode("utf-8", errors="replace")
Utf8Decode(b) ==
    [i \in 1..Len(b) |-> IF b[i] = "xFF" THEN "uFFFD" ELSE b[i]]

\* str.encode("utf-8")
Utf8Encode(s) ==
    Flatten([i \in 1..Len(s) |-> IF s[i] = "uFFFD" THEN <<"xEF", "xBF", "xBD">> ELSE <<s[i]>>])

DigitChars == <<"0", "1", "2", "3", "4", "5", "6", "7", "8", "9">>
IsDigit(ch) == \E d \in 1..10 : DigitChars[d] = ch
DigitVal(ch) == (CHOOSE d \in 1..10 : DigitChars[d] = ch) - 1

RECURSIVE DigitsVal(_)
DigitsVal(s) ==
    IF s = <<>> THEN 0
    ELSE 10 * DigitsVal(SubSeq(s, 1, Len(s) - 1)) + DigitVal(s[Len(s)])

\* str.strip() on blanks
RECURSIVE Strip(_)
Strip(s) ==
    IF s # <<>> /\ s[1] = " " THEN Strip(Tail(s))
    ELSE IF s # <<>> /\ s[Len(s)] = " " THEN Strip(SubSeq(s, 1, Len(s) - 1))
    ELSE s

\* int(s) taking the empty string for 0
ParseIntEmptyZero(s) ==
    LET t == Strip(s)
        signed == t # <<>> /\ t[1] \in {"-", "+"}
        d == IF signed THEN Tail(t) ELSE t
        good == \A i \in 1..Len(d) : IsDigit(d[i])
    IN  IF ~good THEN [ok |-> FALSE, val |-> 0]
        ELSE [ok |-> TRUE,
              val |-> IF signed /\ t[1] = "-" THEN 0 - DigitsVal(d) ELSE DigitsVal(d)]

\* int(s): blanks around, an optional sign, then decimal digits; anything
\* else is ValueError (ok = FALSE)
ParseInt(s) ==
    LET t == Strip(s)
        signed == t # <<>> /\ t[1] \in {"-", "+"}
        d == IF signed THEN Tail(t) ELSE t
        good == d # <<>> /\ \A i \in 1..Len(d) : IsDigit(d[i])
    IN  IF ~good THEN [ok |-> FALSE, val |-> 0]
        ELSE [ok |-> TRUE,
              val |-> IF signed /\ t[1] = "-" THEN 0 - DigitsVal(d) ELSE DigitsVal(d)]

\* str(n) of a natural number
RECURSIVE NatToStr(_)
NatToStr(n) ==
    IF n < 10 THEN <<DigitChars[n + 1]>>
    ELSE NatToStr(n \div 10) \o <<DigitChars[(n % 10) + 1]>>

\* the {size} of an f-string over an int
IntToStr(n) ==
    IF n < 0 THEN <<"-">> \o NatToStr(0 - n) ELSE NatToStr(n)

\* ------------------------------------------------------------ Stream Reader
\* the size of recv_line's reads and the cap of recv_exact's
RecvSize == 4096

\* sock.recv(k), k > 0, on a transport holding the chunks `net`: at most k
\* bytes of the chunk at the head
RecvData(net, k) == SubSeq(Head(net), 1, Min(k, Len(Head(net))))
RecvRest(net, k) ==
    IF Len(Head(net)) <= k THEN Tail(net)
    ELSE <<SubSeq(Head(net), k + 1, Len(Head(net)))>> \o Tail(net)

\* Connection.recv_line on accumulator buf.  eof: the peer has closed its
\* side; sc: this socket has been closed locally.  st is "ok" (val is the
\* decoded line), "closed" (ConnectionError on a zero-byte read), "oserror"
\* (recv on a closed socket) or "block" (recv waits for the peer).
RECURSIVE recv_line(_, _, _, _)
recv_line(buf, net, eof, sc) ==
    LET nl_index == Find(buf, NL) IN
    IF nl_index # 0
    THEN [st |-> "ok", val |-> Utf8Decode(SubSeq(buf, 1, nl_index)),
          raw |-> SubSeq(buf, 1, nl_index),
          buf |-> SubSeq(buf, nl_index + 1, Len(buf)), net |-> net]
    ELSE IF sc THEN [st |-> "oserror", val |-> <<>>, raw |-> <<>>, buf |-> buf, net |-> net]
    ELSE IF net = <<>>
    THEN [st |-> IF eof THEN "closed" ELSE "block",
          val |-> <<>>, raw |-> <<>>, buf |-> buf, net |-> net]
    ELSE recv_line(buf \o RecvData(net, RecvSize), RecvRest(net, RecvSize), eof, sc)

\* the `while n > 0` loop of Connection.recv_exact: the bytes go to data,
\* not to the accumulator
RECURSIVE recv_exact_loop(_, _, _, _, _, _)
recv_exact_loop(n, data, buf, net, eof, sc) ==
    IF n <= 0 THEN [st |-> "ok", val |-> data, buf |-> buf, net |-> net]
    ELSE IF sc THEN [st |-> "oserror", val |-> data, buf |-> buf, net |-> net]
    ELSE IF net = <<>>
    THEN [st |-> IF eof THEN "closed" ELSE "block", val |-> data, buf |-> buf, net |-> net]
    ELSE LET chunk == RecvData(net, Min(RecvSize, n)) IN
         recv_exact_loop(n - Len(chunk), data \o chunk, buf,
                         RecvRest(net, Min(RecvSize, n)), eof, sc)

\* Connection.recv_exact(n): first from the accumulator, then from the socket.
\* When st is not "ok", val holds the bytes the call had collected and drops.
\* direct counts the bytes that went from the socket into the result.
recv_exact(n, buf, net, eof, sc) ==
    LET take == IF buf # <<>> THEN Min(n, Len(buf)) ELSE 0
        r == recv_exact_loop(n - take, PyPrefix(buf, take), PyDelPrefix(buf, take),
                             net, eof, sc)
    IN  [st |-> r.st, val |-> r.val, buf |-> r.buf, net |-> r.net,
         direct |-> Len(r.val) - Len(PyPrefix(buf, take))]

\* ------------------------------------------------------------ Frame Codec
TagMSG == <<"M", "S", "G", "|">>
TagFILE == <<"F", "I", "L", "E", "|">>

\* client: f"MSG|{text}\n".encode("utf-8") after text.replace("\n", " ")
EncodeMsg(text) == Utf8Encode(TagMSG \o ReplaceNL(text) \o <<NL>>)

\* client: f"FILE|{filename}|{len(data)}\n".encode("utf-8"), then the data
EncodeFileHeader(filename, data) ==
    Utf8Encode(TagFILE \o filename \o <<BAR>> \o IntToStr(Len(data)) \o <<NL>>)
EncodeFile(filename, data) == EncodeFileHeader(filename, data) \o data

\* server: the header_line of a relayed message, f"MSG|{msg}\n"
RelayMsgHeader(msg) == TagMSG \o msg \o <<NL>>
\* server: the header_line of a relayed file, f"FILE|{filename}|{size}\n"
RelayFileHeader(filename, size) ==
    TagFILE \o filename \o <<BAR>> \o IntToStr(size) \o <<NL>>

\* the record of one Stream Reader call: what it returned (val, and raw, the
\* bytes val was made of), or how it raised (st) and the bytes it had
\* collected and drops; direct as in recv_exact
CallLine(r) ==
    [op |-> "line", n |-> 0, st |-> r.st, val |-> r.val, raw |-> r.raw,
     dropped |-> <<>>, direct |-> 0]
CallExact(n, r) ==
    [op |-> "exact", n |-> n, st |-> r.st,
     val |-> IF r.st = "ok" THEN r.val ELSE <<>>,
     raw |-> IF r.st = "ok" THEN r.val ELSE <<>>,
     dropped |-> IF r.st = "ok" THEN <<>> ELSE r.val, direct |-> r.direct]

NoFrame == [filename |-> <<>>, size |-> 0, data |-> <<>>, hdr |-> <<>>, text |-> <<>>]

\* One pass of the session loop up to its dispatch: read the header line,
\* interpret it and read the payload.  kind is "msg" or "file" (a frame was
\* decoded), "warn" (a header the loop logs and skips), "raise" (the read
\* raised: st says which) or "block".
DecodeFrame(buf, net, eof, sc) ==
    LET l == recv_line(buf, net, eof, sc)
        header == RStripNL(l.val)
        base == [kind |-> "warn", st |-> l.st, buf |-> l.buf, net |-> l.net,
                 line |-> l.raw, raw |-> l.raw, calls |-> <<CallLine(l)>>,
                 why |-> "none"] @@ NoFrame
    IN
    IF l.st = "block" THEN [base EXCEPT !.kind = "block"]
    ELSE IF l.st # "ok" THEN [base EXCEPT !.kind = "raise"]
    ELSE IF StartsWith(header, TagMSG)
    THEN LET msg == SplitOnce(header)[2] IN
         [base EXCEPT !.kind = "msg", !.text = msg, !.hdr = RelayMsgHeader(msg)]
    ELSE IF StartsWith(header, TagFILE)
    THEN LET parts == Split(header) IN
         IF Len(parts) # 3 THEN [base EXCEPT !.why = "fields"]
         ELSE LET size == ParseInt(parts[3]) IN
              IF ~size.ok THEN [base EXCEPT !.why = "size"]
              ELSE LET d == recv_exact(size.val, l.buf, l.net, eof, sc)
                       both == [base EXCEPT !.st = d.st, !.buf = d.buf, !.net = d.net,
                                            !.calls = @ \o <<CallExact(size.val, d)>>,
                                            !.filename = parts[2], !.size = size.val]
                   IN IF d.st = "block" THEN [both EXCEPT !.kind = "block"]
                      ELSE IF d.st # "ok" THEN [both EXCEPT !.kind = "raise"]
                      ELSE [both EXCEPT !.kind = "file", !.data = d.val,
                                        !.raw = @ \o d.val,
                                        !.hdr = RelayFileHeader(parts[2], size.val)]
    ELSE [base EXCEPT !.why = "tag"]

\* ------------------------------------------------------------ save path
\* os.path.basename
Basename(filename) == SubSeq(filename, RFind(filename, "/") + 1, Len(filename))

\* os.path.splitext: the extension starts at the last dot, unless only dots
\* come before it
SplitextAt(base) ==
    LET i == RFind(base, ".") IN
    IF i > 1 /\ \E j \in 1..(i - 1) : base[j] # "." THEN i ELSE Len(base) + 1
SplitextRoot(base) == SubSeq(base, 1, SplitextAt(base) - 1)
SplitextExt(base) == SubSeq(base, SplitextAt(base), Len(base))

\* os.path.exists of a name joined to the receive directory: the empty name
\* is the directory itself
PathExists(name, files) == name = <<>> \/ name \in files

\* the candidates _unique_save_path walks through, from idx on
RECURSIVE UniqueFrom(_, _, _, _)
UniqueFrom(root, ext, idx, files) ==
    LET candidate == root \o <<"_">> \o IntToStr(idx) \o ext IN
    IF PathExists(candidate, files) THEN UniqueFrom(root, ext, idx + 1, files)
    ELSE candidate

\* TCPServer._unique_save_path over the names in the receive directory
UniqueSavePath(filename, files) ==
    LET base == Basename(filename) IN
    IF PathExists(base, files)
    THEN UniqueFrom(SplitextRoot(base), SplitextExt(base), 1, files)
    ELSE base

\* ------------------------------------------------------------ state
VARIABLES
    net,          \* per connection: the chunks its peer sent that recv has not returned yet
    peerClosed,   \* per connection: the peer has closed its end
    sockClosed,   \* per connection: Connection.close() has closed the socket
    buffer,       \* per connection: Connection._buffer
    wire,         \* per connection: the sendall calls that wrote to it, in order
    clients,      \* TCPServer.clients
    clients_lock, \* 0 when free, else the thread holding it (AcceptThread or a session)
    accepted,     \* connections the accept loop has taken
    accPc,        \* the accept loop's position
    pc,           \* per session thread: its position in handle_client
    cur,          \* per session thread: the frame it decoded and relays
    targets,      \* per session thread: broadcast's snapshot
    ti,           \* per session thread: index of broadcast's loop in targets
    rmConn,       \* per session thread: the argument of its remove_client call
    rmRet,        \* per session thread: where that call returns to
    savePath,     \* per session thread: save_path
    disk,         \* the receive directory: name -> content
    script,       \* per connection: what its peer put on the stream (history)
    calls,        \* per connection: the Stream Reader calls made and their results (history)
    log,          \* per connection: the outcome of every pass of the session loop (history)
    bcasts,       \* per session thread: snapshot and failed targets of each broadcast (history)
    endWhy,       \* per session thread: what ended the loop (history)
    _running,     \* TCPClient._running
    rpc,          \* the client's receiver thread: its position in _receiver_loop
    spc,          \* the client's main thread: its position in _sender_loop
    cnet,         \* client: the chunks the server sent that recv has not returned yet
    cfuture,      \* client: the chunks the server has still to send
    srvClosed,    \* client: the server has closed the connection
    cconnClosed,  \* client: self.conn.close() has closed the socket
    cbuffer,      \* client: Connection._buffer
    choices,      \* client: what the user will still type at the prompt
    rblocked,     \* client: the receiver waits inside sock.recv
    csent,        \* client: the sendall calls of the sender loop (history)
    clog,         \* client: the outcome of every pass of the receiver loop (history)
    downloads,    \* client: the download directory: name -> content
    iter          \* client: iterations the sender loop has started (history)

srvVars == <<net, peerClosed, sockClosed, buffer, wire, clients, clients_lock, accepted,
             accPc, pc, cur, targets, ti, rmConn, rmRet, savePath, disk, script, calls,
             log, bcasts, endWhy>>

cliVars == <<_running, rpc, spc, cnet, cfuture, srvClosed, cconnClosed, cbuffer, choices,
             rblocked, csent, clog, downloads, iter>>

vars == <<srvVars, cliVars>>

connVars == <<net, peerClosed, sockClosed, buffer, wire>>
histVars == <<script, calls, log, bcasts, endWhy>>

Conns == DOMAIN net
AcceptThread == 0 - 1

\* ------------------------------------------------------------ peers' input
Item(k, name, body) == [k |-> k, name |-> name, body |-> body]

\* the bytes an item puts on the stream: a message and a file as the client's
\* sender encodes them, a raw item as written (a header line, then any bytes)
ItemBytes(it) ==
    IF it.k = "msg" THEN EncodeMsg(it.body)
    ELSE IF it.k = "file" THEN EncodeFile(it.name, it.body)
    ELSE it.name \o it.body

RECURSIVE ScriptBytes(_)
ScriptBytes(sc) ==
    IF sc = <<>> THEN <<>> ELSE ItemBytes(Head(sc)) \o ScriptBytes(Tail(sc))

\* the stream cut into chunks of k bytes (the last one shorter)
RECURSIVE Chunks(_, _)
Chunks(bytes, k) ==
    IF bytes = <<>> THEN <<>>
    ELSE IF Len(bytes) <= k THEN <<bytes>>
    ELSE <<SubSeq(bytes, 1, k)>> \o Chunks(SubSeq(bytes, k + 1, Len(bytes)), k)

Scripts(items, n) == UNION {[1..m -> items] : m \in 0..n}

\* ------------------------------------------------------------ accept loop
\* TCPServer.start: accept() returned a socket, a Connection wraps it and the
\* loop takes clients_lock
AcceptAcquire ==
    /\ accPc = "accept"
    /\ accepted < Len(net)
    /\ clients_lock = 0
    /\ clients_lock' = AcceptThread
    /\ accPc' = "append"
    /\ UNCHANGED <<cliVars, connVars, histVars, clients, accepted, pc, cur, targets, ti, rmConn,
                   rmRet, savePath, disk>>

\* TCPServer.start: clients.append(conn) under the lock, then the session
\* thread of the connection is started
AcceptRegister ==
    /\ accPc = "append"
    /\ clients' = Append(clients, accepted + 1)
    /\ clients_lock' = 0
    /\ accepted' = accepted + 1
    /\ pc' = [pc EXCEPT ![accepted + 1] = "read"]
    /\ accPc' = "accept"
    /\ UNCHANGED <<cliVars, connVars, histVars, cur, targets, ti, rmConn, rmRet, savePath, disk>>

\* ------------------------------------------------------------ peers
\* the peer of connection c closes its end: reads past what it sent return
\* zero bytes, writes to it may fail
PeerClose(c) ==
    /\ ~peerClosed[c]
    /\ Cardinality({d \in Conns : peerClosed[d]}) < MaxPeerClose
    /\ peerClosed' = [peerClosed EXCEPT ![c] = TRUE]
    /\ UNCHANGED <<cliVars, net, sockClosed, buffer, wire, histVars, clients, clients_lock,
                   accepted, accPc, pc, cur, targets, ti, rmConn, rmRet, savePath, disk>>

\* ------------------------------------------------------------ session loop
LogEntry(f) ==
    [kind |-> f.kind, why |-> f.why, st |-> f.st, line |-> f.line, raw |-> f.raw,
     hdr |-> f.hdr,
     filename |-> f.filename, size |-> f.size, data |-> f.data, text |-> f.text]

\* handle_client leaving its loop on a header it cannot use
AfterDecodeStrict(kind) ==
    IF kind = "msg" THEN "bc_acq"
    ELSE IF kind = "file" THEN "path"
    ELSE "rm_acq"

\* where handle_client goes once a pass has decoded (or failed to decode)
AfterDecode(kind) ==
    IF kind = "msg" THEN "bc_acq"
    ELSE IF kind = "file" THEN "path"
    ELSE IF kind = "warn" THEN "read"
    ELSE "rm_acq"

\* handle_client: one pass of the loop up to its dispatch.  A message goes
\* to broadcast, a file to the save, a skipped header back to recv_line; a
\* ConnectionError or OSError leaves the loop for the finally clause,
\* remove_client(conn).
Read(c) ==
    /\ pc[c] = "read"
    /\ LET f == DecodeFrame(buffer[c], net[c], peerClosed[c], sockClosed[c]) IN
       /\ f.kind # "block"
       /\ buffer' = [buffer EXCEPT ![c] = f.buf]
       /\ net' = [net EXCEPT ![c] = f.net]
       /\ calls' = [calls EXCEPT ![c] = @ \o f.calls]
       /\ log' = [log EXCEPT ![c] = Append(@, LogEntry(f))]
       /\ pc' = [pc EXCEPT ![c] = AfterDecode(f.kind)]
       /\ cur' = [cur EXCEPT ![c] = [hdr |-> f.hdr, payload |-> f.data,
                                     filename |-> f.filename]]
       /\ rmConn' = [rmConn EXCEPT ![c] = IF f.kind = "raise" THEN c ELSE @]
       /\ rmRet' = [rmRet EXCEPT ![c] = IF f.kind = "raise" THEN "exit" ELSE @]
       /\ endWhy' = [endWhy EXCEPT ![c] = IF f.kind = "raise" THEN f.st ELSE @]
    /\ UNCHANGED <<cliVars, peerClosed, sockClosed, wire, clients, clients_lock, accepted, accPc,
                   targets, ti, savePath, disk, script, bcasts>>

\* handle_client: save_path = self._unique_save_path(filename)
SavePath(c) ==
    /\ pc[c] = "path"
    /\ savePath' = [savePath EXCEPT ![c] = UniqueSavePath(cur[c].filename, DOMAIN disk)]
    /\ pc' = [pc EXCEPT ![c] = "write"]
    /\ UNCHANGED <<cliVars, connVars, histVars, clients, clients_lock, accepted, accPc, cur,
                   targets, ti, rmConn, rmRet, disk>>

\* open(save_path, "wb") and f.write(data): the file is created or truncated
WriteFile(path, data, d) ==
    [q \in DOMAIN d \cup {path} |-> IF q = path THEN data ELSE d[q]]

\* handle_client: the payload is written to save_path, then broadcast is called
SaveWrite(c) ==
    /\ pc[c] = "write"
    /\ disk' = WriteFile(savePath[c], cur[c].payload, disk)
    /\ pc' = [pc EXCEPT ![c] = "bc_acq"]
    /\ UNCHANGED <<cliVars, connVars, histVars, clients, clients_lock, accepted, accPc, cur,
                   targets, ti, rmConn, rmRet, savePath>>

\* ------------------------------------------------------------ broadcast
\* broadcast: with self.clients_lock
BcastAcquire(c) ==
    /\ pc[c] = "bc_acq"
    /\ clients_lock = 0
    /\ clients_lock' = c
    /\ pc' = [pc EXCEPT ![c] = "bc_snap"]
    /\ UNCHANGED <<cliVars, connVars, histVars, clients, accepted, accPc, cur, targets, ti,
                   rmConn, rmRet, savePath, disk>>

\* broadcast: [c for c in self.clients if c is not sender]
Snapshot(cl, sender) ==
    LET Other(x) == x # sender IN SelectSeq(cl, Other)

\* broadcast keeping clients_lock after its with block
SnapshotKeepsLock(c) == c

\* broadcast: the with block ends once the snapshot is taken, and leaves
\* clients_lock free
SnapshotUnlock(c) == 0

\* the position of broadcast's loop over tg at index i: the next send, or the
\* return to handle_client's loop
LoopAt(tg, i) == IF i <= Len(tg) THEN "bc_hdr" ELSE "read"

\* broadcast: the snapshot is taken and the lock released
BcastSnapshot(c) ==
    /\ pc[c] = "bc_snap"
    /\ clients_lock = c
    /\ targets' = [targets EXCEPT ![c] = Snapshot(clients, c)]
    /\ ti' = [ti EXCEPT ![c] = 1]
    /\ clients_lock' = SnapshotUnlock(c)
    /\ pc' = [pc EXCEPT ![c] = LoopAt(targets'[c], 1)]
    /\ bcasts' = [bcasts EXCEPT ![c] =
                    Append(@, [fno |-> Len(log[c]), reg |-> clients,
                               snap |-> targets'[c], failed |-> {}])]
    /\ UNCHANGED <<cliVars, connVars, clients, accepted, accPc, cur, rmConn, rmRet, savePath,
                   disk, script, calls, log, endWhy>>

Write(c, part, bytes) ==
    [from |-> c, fno |-> Len(log[c]), part |-> part, bytes |-> bytes]

\* broadcast without its second sendall
AfterHeaderSkip(payload, tg, i) == LoopAt(tg, i + 1)

\* broadcast: where the loop goes after the header went out
AfterHeader(payload, tg, i) ==
    IF payload # <<>> THEN "bc_pay" ELSE LoopAt(tg, i + 1)

\* broadcast: c.sendall(header_line.encode("utf-8")) returns
SendHeader(c) ==
    /\ pc[c] = "bc_hdr"
    /\ LET t == targets[c][ti[c]] IN
       /\ ~sockClosed[t]
       /\ wire' = [wire EXCEPT ![t] = Append(@, Write(c, "hdr", Utf8Encode(cur[c].hdr)))]
    /\ pc' = [pc EXCEPT ![c] = AfterHeader(cur[c].payload, targets[c], ti[c])]
    /\ ti' = [ti EXCEPT ![c] = IF cur[c].payload # <<>> THEN @ ELSE @ + 1]
    /\ UNCHANGED <<cliVars, net, peerClosed, sockClosed, buffer, histVars, clients, clients_lock,
                   accepted, accPc, cur, targets, rmConn, rmRet, savePath, disk>>

\* broadcast: c.sendall(payload) returns
SendPayload(c) ==
    /\ pc[c] = "bc_pay"
    /\ LET t == targets[c][ti[c]] IN
       /\ ~sockClosed[t]
       /\ wire' = [wire EXCEPT ![t] = Append(@, Write(c, "pay", cur[c].payload))]
    /\ pc' = [pc EXCEPT ![c] = LoopAt(targets[c], ti[c] + 1)]
    /\ ti' = [ti EXCEPT ![c] = @ + 1]
    /\ UNCHANGED <<cliVars, net, peerClosed, sockClosed, buffer, histVars, clients, clients_lock,
                   accepted, accPc, cur, targets, rmConn, rmRet, savePath, disk>>

\* broadcast: where a sendall that raised leads: the except clause calls
\* remove_client(c)
OnSendError == "rm_acq"

\* broadcast: a sendall to target t raised; the except clause logs it and
\* calls remove_client(t)
SendRaises(c, t) ==
    /\ rmConn' = [rmConn EXCEPT ![c] = t]
    /\ bcasts' = [bcasts EXCEPT ![c][Len(bcasts[c])].failed = @ \cup {t}]
    /\ rmRet' = [rmRet EXCEPT ![c] = "bcast"]
    /\ pc' = [pc EXCEPT ![c] = OnSendError]
    /\ UNCHANGED <<cliVars, connVars, clients, clients_lock, accepted, accPc, cur, targets, ti,
                   savePath, disk, script, calls, log, endWhy>>

\* broadcast: either sendall raises OSError, the target's socket being closed
SendFailsClosed(c) ==
    /\ pc[c] \in {"bc_hdr", "bc_pay"}
    /\ sockClosed[targets[c][ti[c]]]
    /\ SendRaises(c, targets[c][ti[c]])

\* broadcast: either sendall raises because the target's peer has gone (the
\* transport decides whether a write after the peer's close still succeeds)
SendFailsPeer(c) ==
    /\ pc[c] \in {"bc_hdr", "bc_pay"}
    /\ ~sockClosed[targets[c][ti[c]]]
    /\ peerClosed[targets[c][ti[c]]]
    /\ SendRaises(c, targets[c][ti[c]])

\* ------------------------------------------------------------ remove_client
\* remove_client: with self.clients_lock
RemoveAcquire(c) ==
    /\ pc[c] = "rm_acq"
    /\ clients_lock = 0
    /\ clients_lock' = c
    /\ pc' = [pc EXCEPT ![c] = "rm_body"]
    /\ UNCHANGED <<cliVars, connVars, histVars, clients, accepted, accPc, cur, targets, ti,
                   rmConn, rmRet, savePath, disk>>

\* list.remove(conn) that takes the first element when conn is not in the list
RemoveFromElse(cl, conn) ==
    LET i == Find(cl, conn) IN
    IF i = 0 THEN (IF cl = <<>> THEN cl ELSE Tail(cl))
    ELSE SubSeq(cl, 1, i - 1) \o SubSeq(cl, i + 1, Len(cl))

\* remove_client without its list.remove
RemoveFromNothing(cl, conn) == cl

\* list.remove(conn) when conn is in the list: the first occurrence goes
RemoveFrom(cl, conn) ==
    LET i == Find(cl, conn) IN
    IF i = 0 THEN cl ELSE SubSeq(cl, 1, i - 1) \o SubSeq(cl, i + 1, Len(cl))

\* remove_client keeping clients_lock after its with block
RemoveKeepsLock(c) == c

\* remove_client: the with block ends before conn.close(), and leaves
\* clients_lock free
RemoveUnlock(c) == 0

\* remove_client: the list is updated and the lock released
RemoveBody(c) ==
    /\ pc[c] = "rm_body"
    /\ clients_lock = c
    /\ clients' = RemoveFrom(clients, rmConn[c])
    /\ clients_lock' = RemoveUnlock(c)
    /\ pc' = [pc EXCEPT ![c] = "rm_close"]
    /\ UNCHANGED <<cliVars, connVars, histVars, accepted, accPc, cur, targets, ti, rmConn, rmRet,
                   savePath, disk>>

\* broadcast with its try around the whole loop: a failed send ends the call
AfterRemoveAbort(ret, tg, i) ==
    IF ret = "exit" THEN "done" ELSE "read"

\* handle_client going back to its loop after the finally clause
AfterRemoveResume(ret, tg, i) ==
    IF ret = "exit" THEN "read" ELSE LoopAt(tg, i + 1)

\* where remove_client returns to: the end of the session thread from the
\* finally clause, the next target from broadcast's except clause
AfterRemove(ret, tg, i) ==
    IF ret = "exit" THEN "done" ELSE LoopAt(tg, i + 1)

\* remove_client: conn.close(), and the return to the caller
RemoveClose(c) ==
    /\ pc[c] = "rm_close"
    /\ sockClosed' = [sockClosed EXCEPT ![rmConn[c]] = TRUE]
    /\ pc' = [pc EXCEPT ![c] = AfterRemove(rmRet[c], targets[c], ti[c])]
    /\ ti' = [ti EXCEPT ![c] = IF rmRet[c] = "exit" THEN @ ELSE @ + 1]
    /\ UNCHANGED <<cliVars, net, peerClosed, buffer, wire, histVars, clients, clients_lock,
                   accepted, accPc, cur, targets, rmConn, rmRet, savePath, disk>>

\* ------------------------------------------------------------ failing save
\* handle_client with the save in a try of its own that logs and goes on to
\* broadcast
OnSaveErrorRelay == "bc_acq"

\* handle_client: where an OSError of open() or f.write() leads: the except
\* clause of the loop, then the finally clause, remove_client(conn)
OnSaveError == "rm_acq"

\* handle_client: open(save_path, "wb") raises OSError (the directory is not
\* writable, say), or f.write(data) does after the file was created and a
\* part of the data written
SaveFails(c) ==
    /\ pc[c] = "write"
    /\ \E d \in {disk} \cup {WriteFile(savePath[c], SubSeq(cur[c].payload, 1, n), disk) :
                             n \in 0..(Len(cur[c].payload) - 1)} : disk' = d
    /\ pc' = [pc EXCEPT ![c] = OnSaveError]
    /\ rmConn' = [rmConn EXCEPT ![c] = c]
    /\ rmRet' = [rmRet EXCEPT ![c] = "exit"]
    /\ endWhy' = [endWhy EXCEPT ![c] = "save"]
    /\ UNCHANGED <<cliVars, connVars, clients, clients_lock, accepted, accPc, cur, targets, ti,
                   savePath, script, calls, log, bcasts>>

\* ------------------------------------------------------------ shutdown
\* TCPServer.start: KeyboardInterrupt reaches the main thread in its accept
\* loop; the finally clause calls shutdown().  Inside the with block the lock
\* is released on the way out, the append done or not, and the connection's
\* session thread is never started.
Interrupt ==
    /\ accPc \in {"accept", "append"}
    /\ accPc' = "sd_acq"
    /\ IF accPc = "append"
       THEN /\ clients_lock' = 0
            /\ clients' \in {clients, Append(clients, accepted + 1)}
            /\ accepted' = accepted + 1
       ELSE UNCHANGED <<clients_lock, clients, accepted>>
    /\ UNCHANGED <<cliVars, connVars, histVars, pc, cur, targets, ti, rmConn, rmRet, savePath,
                   disk>>

\* shutdown: with self.clients_lock
ShutdownAcquire ==
    /\ accPc = "sd_acq"
    /\ clients_lock = 0
    /\ clients_lock' = AcceptThread
    /\ accPc' = "sd_body"
    /\ UNCHANGED <<cliVars, connVars, histVars, clients, accepted, pc, cur, targets, ti, rmConn,
                   rmRet, savePath, disk>>

\* shutdown: every registered connection is closed and the list cleared,
\* under the lock; then the listening socket is closed
ShutdownBody ==
    /\ accPc = "sd_body"
    /\ sockClosed' = [c \in Conns |-> sockClosed[c] \/ c \in Range(clients)]
    /\ clients' = <<>>
    /\ clients_lock' = 0
    /\ accPc' = "sd_done"
    /\ UNCHANGED <<cliVars, net, peerClosed, buffer, wire, histVars, accepted, pc, cur, targets,
                   ti, rmConn, rmRet, savePath, disk>>

\* ------------------------------------------------------------ client
\* src/client.py: one TCPClient, its receiver thread and its sender loop (the
\* main thread), the user at its prompt and the server at the other end.

\* the user's answers at the prompt: quit, a message, a file that exists,
\* and anything the loop answers by asking again (an invalid choice, a path
\* that is no file)
Choices == {"q", "m", "f", "x"}

\* the message and the file the user sends
UserText == <<"h">>
UserFile == [name |-> <<"a">>, data |-> <<"x">>]

\* _sender_loop with a `while True`
SenderAfterCheckAlways(r) == "input"

\* _sender_loop: `while self._running`
SenderAfterCheck(r) == IF r THEN "input" ELSE "close"

\* _sender_loop: the loop condition is evaluated; a new iteration starts, or
\* the loop ends and the finally clause follows
SenderCheck ==
    /\ spc = "check"
    /\ spc' = SenderAfterCheck(_running)
    /\ iter' = IF spc' = "input" THEN iter + 1 ELSE iter
    /\ UNCHANGED <<srvVars, _running, rpc, cnet, cfuture, srvClosed, cconnClosed, cbuffer,
                   choices, rblocked, csent, clog, downloads>>

\* _sender_loop: where the user's choice leads
AfterChoice(ch) ==
    IF ch = "q" THEN "close"
    ELSE IF ch = "m" THEN "send_msg"
    ELSE IF ch = "f" THEN "send_hdr"
    ELSE "check"

\* _sender_loop: input() returns the user's choice (and, for a message or a
\* file, the text or the path); 'q' clears the flag and breaks
SenderInput ==
    /\ spc = "input"
    /\ choices # <<>>
    /\ choices' = Tail(choices)
    /\ _running' = IF Head(choices) = "q" THEN FALSE ELSE _running
    /\ spc' = AfterChoice(Head(choices))
    /\ UNCHANGED <<srvVars, rpc, cnet, cfuture, srvClosed, cconnClosed, cbuffer, rblocked,
                   csent, clog, downloads, iter>>

\* a sendall of the sender loop, with the iteration it belongs to and the
\* flag at that moment
Sent(bytes) == [bytes |-> bytes, iter |-> iter, running |-> _running]

\* _sender_loop: self.conn.sendall(f"MSG|{text}\n".encode("utf-8")) returns
SendMsg ==
    /\ spc = "send_msg"
    /\ csent' = Append(csent, Sent(EncodeMsg(UserText)))
    /\ spc' = "check"
    /\ UNCHANGED <<srvVars, _running, rpc, cnet, cfuture, srvClosed, cconnClosed, cbuffer,
                   choices, rblocked, clog, downloads, iter>>

\* _sender_loop: that sendall raises, the server being gone; nothing catches
\* it in the loop, the finally clause follows
SendMsgFails ==
    /\ spc = "send_msg"
    /\ srvClosed
    /\ spc' = "close"
    /\ UNCHANGED <<srvVars, _running, rpc, cnet, cfuture, srvClosed, cconnClosed, cbuffer,
                   choices, rblocked, csent, clog, downloads, iter>>

\* _sender_loop: self.conn.sendall(header) returns
SendFileHeader ==
    /\ spc = "send_hdr"
    /\ csent' = Append(csent, Sent(EncodeFileHeader(UserFile.name, UserFile.data)))
    /\ spc' = "send_data"
    /\ UNCHANGED <<srvVars, _running, rpc, cnet, cfuture, srvClosed, cconnClosed, cbuffer,
                   choices, rblocked, clog, downloads, iter>>

\* _sender_loop: self.conn.sendall(data) returns
SendFileData ==
    /\ spc = "send_data"
    /\ csent' = Append(csent, Sent(UserFile.data))
    /\ spc' = "check"
    /\ UNCHANGED <<srvVars, _running, rpc, cnet, cfuture, srvClosed, cconnClosed, cbuffer,
                   choices, rblocked, clog, downloads, iter>>

\* _sender_loop: either sendall of a file raises; the except clause prints
\* the error and the loop goes on
SendFileFails ==
    /\ spc \in {"send_hdr", "send_data"}
    /\ srvClosed
    /\ spc' = "check"
    /\ UNCHANGED <<srvVars, _running, rpc, cnet, cfuture, srvClosed, cconnClosed, cbuffer,
                   choices, rblocked, csent, clog, downloads, iter>>

\* _sender_loop: the finally clause closes the connection; start() returns
SenderClose ==
    /\ spc = "close"
    /\ cconnClosed' = TRUE
    /\ spc' = "exited"
    /\ UNCHANGED <<srvVars, _running, rpc, cnet, cfuture, srvClosed, cbuffer, choices,
                   rblocked, csent, clog, downloads, iter>>

\* _receiver_loop: where the loop condition leads
ReceiverAfterCheck(r) == IF r THEN "recv" ELSE "final"

\* _receiver_loop: `while self._running` is evaluated
ReceiverCheck ==
    /\ rpc = "check"
    /\ rpc' = ReceiverAfterCheck(_running)
    /\ UNCHANGED <<srvVars, _running, spc, cnet, cfuture, srvClosed, cconnClosed, cbuffer,
                   choices, rblocked, csent, clog, downloads, iter>>

\* _receiver_loop: recv_line (or recv_exact) finds nothing to read and waits
\* inside sock.recv
ReceiverBlocks ==
    /\ rpc = "recv"
    /\ ~rblocked
    /\ ~cconnClosed
    /\ DecodeFrame(cbuffer, cnet, srvClosed, FALSE).kind = "block"
    /\ rblocked' = TRUE
    /\ UNCHANGED <<srvVars, _running, rpc, spc, cnet, cfuture, srvClosed, cconnClosed,
                   cbuffer, choices, csent, clog, downloads, iter>>

\* What a read of the receiver meets once the sender has closed the socket.
\* A recv called after the close raises OSError.  A recv that was waiting
\* when the other thread closed the socket is not defined by Python: it may
\* raise, or stay in the call and return what the server sends next.
SocketSeenClosed ==
    IF ~cconnClosed THEN {FALSE}
    ELSE IF rblocked THEN {TRUE, FALSE}
    ELSE {TRUE}

\* _receiver_loop: where one pass leads: back to the loop condition, or, on
\* ConnectionError or OSError, to the finally clause
ReceiverAfterPass(kind) == IF kind = "raise" THEN "final" ELSE "check"

\* _receiver_loop: one pass of the loop: a message is printed, a file saved
\* to the download directory, a header it cannot use is skipped
ReceiverPass ==
    /\ rpc = "recv"
    /\ \E sc \in SocketSeenClosed :
          LET f == DecodeFrame(cbuffer, cnet, srvClosed, sc) IN
          /\ f.kind # "block"
          /\ cbuffer' = f.buf
          /\ cnet' = f.net
          /\ clog' = Append(clog, [kind |-> f.kind, st |-> f.st, running |-> _running])
          /\ downloads' = IF f.kind = "file"
                          THEN WriteFile(UniqueSavePath(f.filename, DOMAIN downloads),
                                         f.data, downloads)
                          ELSE downloads
          /\ rpc' = ReceiverAfterPass(f.kind)
    /\ rblocked' = FALSE
    /\ UNCHANGED <<srvVars, _running, spc, cfuture, srvClosed, cconnClosed, choices, csent,
                   iter>>

\* _receiver_loop: the finally clause, self._running = False
ReceiverFinal ==
    /\ rpc = "final"
    /\ _running' = FALSE
    /\ rpc' = "ended"
    /\ UNCHANGED <<srvVars, spc, cnet, cfuture, srvClosed, cconnClosed, cbuffer, choices,
                   rblocked, csent, clog, downloads, iter>>

\* the main thread has returned from start(), the last statement of the
\* script: the interpreter exits, and the receiver, a daemon thread, ends
\* with it wherever it is
ProcessExit ==
    /\ spc = "exited"
    /\ rpc \notin {"ended", "killed"}
    /\ rpc' = "killed"
    /\ UNCHANGED <<srvVars, _running, spc, cnet, cfuture, srvClosed, cconnClosed, cbuffer,
                   choices, rblocked, csent, clog, downloads, iter>>

\* a chunk the server sent reaches the client's socket
Arrive ==
    /\ cfuture # <<>>
    /\ cnet' = Append(cnet, Head(cfuture))
    /\ cfuture' = Tail(cfuture)
    /\ UNCHANGED <<srvVars, _running, rpc, spc, srvClosed, cconnClosed, cbuffer, choices,
                   rblocked, csent, clog, downloads, iter>>

\* the server closes the connection, everything it sent having arrived
ServerCloses ==
    /\ ~srvClosed
    /\ cfuture = <<>>
    /\ srvClosed' = TRUE
    /\ UNCHANGED <<srvVars, _running, rpc, spc, cnet, cfuture, cconnClosed, cbuffer,
                   choices, rblocked, csent, clog, downloads, iter>>

\* TCPClient after __init__ and the connect of start(), both loops about to
\* evaluate their condition: ch is what the user will type, fut the chunks
\* the server will send
ClientInitWith(ch, fut) ==
    /\ _running = TRUE
    /\ rpc = "check"
    /\ spc = "check"
    /\ cnet = <<>>
    /\ cfuture = fut
    /\ srvClosed = FALSE
    /\ cconnClosed = FALSE
    /\ cbuffer = <<>>
    /\ choices = ch
    /\ rblocked = FALSE
    /\ csent = <<>>
    /\ clog = <<>>
    /\ downloads = <<>>
    /\ iter = 0

\* the server's model when the client is not looked at
NoClient == ClientInitWith(<<>>, <<>>)

\* ------------------------------------------------------------ specifications
NoCur == [hdr |-> <<>>, payload |-> <<>>, filename |-> <<>>]

\* the server right after construction, its peers' input given: sc is the
\* script of each peer, nt the chunks its bytes arrive in, pcl whether the
\* peer has closed its end already
InitWith(sc, nt, pcl) ==
    /\ script = sc
    /\ net = nt
    /\ peerClosed = pcl
    /\ sockClosed = [c \in DOMAIN nt |-> FALSE]
    /\ buffer = [c \in DOMAIN nt |-> <<>>]
    /\ wire = [c \in DOMAIN nt |-> <<>>]
    /\ clients = <<>>
    /\ clients_lock = 0
    /\ accepted = 0
    /\ accPc = "accept"
    /\ pc = [c \in DOMAIN nt |-> "new"]
    /\ cur = [c \in DOMAIN nt |-> NoCur]
    /\ targets = [c \in DOMAIN nt |-> <<>>]
    /\ ti = [c \in DOMAIN nt |-> 1]
    /\ rmConn = [c \in DOMAIN nt |-> c]
    /\ rmRet = [c \in DOMAIN nt |-> "exit"]
    /\ savePath = [c \in DOMAIN nt |-> <<>>]
    /\ disk = <<>>
    /\ calls = [c \in DOMAIN nt |-> <<>>]
    /\ log = [c \in DOMAIN nt |-> <<>>]
    /\ bcasts = [c \in DOMAIN nt |-> <<>>]
    /\ endWhy = [c \in DOMAIN nt |-> "none"]

Whole(bytes) == Chunks(bytes, Len(bytes) + 1)

\* what the peers of the relay scenarios send: a message, a file as the
\* client encodes it, and a file whose header writes its size as 01
RelayItems ==
    { Item("msg", <<>>, <<"h">>),
      Item("file", <<"a">>, <<"x">>),
      Item("raw", TagFILE \o <<"a", BAR, "0", "1", NL>>, <<"x">>) }

\* NConn peers, at most MaxItems frames between them, every stream arriving
\* in one chunk; the peers are connected and may close later
Init ==
    \E sc \in [1..NConn -> Scripts(RelayItems, MaxItems)] :
        /\ Len(Flatten(sc)) <= MaxItems
        /\ InitWith(sc, [c \in 1..NConn |-> Whole(ScriptBytes(sc[c]))],
                    [c \in 1..NConn |-> FALSE])
        /\ NoClient

\* what the peers of the codec scenarios send
CodecItems ==
    { Item("msg", <<>>, <<"h">>),
      Item("msg", <<>>, <<BAR, NL, "h">>),
      Item("file", <<"a">>, <<>>),
      Item("file", <<"a">>, <<"x", NL>>),
      Item("file", <<"a", BAR>>, <<"x">>),
      Item("raw", <<"X", NL>>, <<>>),
      Item("raw", TagFILE \o <<"a", NL>>, <<>>),
      Item("raw", TagFILE \o <<"a", BAR, NL>>, <<>>),
      Item("raw", TagFILE \o <<"a", BAR, "x", NL>>, <<>>),
      Item("raw", TagFILE \o <<"a", BAR, "x", NL>>, <<"y">>),
      Item("raw", TagFILE \o <<"a", BAR, "-", "1", NL>>, <<"x", "y">>),
      Item("raw", TagFILE \o <<"a", BAR, "2", NL>>, <<"x">>) }

\* two peers that sent the same script and closed: the first one's bytes
\* arrive in one chunk, the second one's in chunks of k bytes
InitCodec ==
    \E s \in Scripts(CodecItems, MaxItems), k \in 1..MaxChunk :
        /\ InitWith([c \in 1..2 |-> s],
                    <<Whole(ScriptBytes(s)), Chunks(ScriptBytes(s), k)>>,
                    [c \in 1..2 |-> TRUE])
        /\ NoClient

\* the server's own steps
Serve ==
    \/ AcceptAcquire
    \/ AcceptRegister
    \/ \E c \in Conns : Read(c)
    \/ \E c \in Conns : SavePath(c)
    \/ \E c \in Conns : SaveWrite(c)
    \/ \E c \in Conns : BcastAcquire(c)
    \/ \E c \in Conns : BcastSnapshot(c)
    \/ \E c \in Conns : SendHeader(c)
    \/ \E c \in Conns : SendPayload(c)
    \/ \E c \in Conns : SendFailsClosed(c)
    \/ \E c \in Conns : RemoveAcquire(c)
    \/ \E c \in Conns : RemoveBody(c)
    \/ \E c \in Conns : RemoveClose(c)

Next ==
    \/ Serve
    \/ \E c \in Conns : PeerClose(c)
    \/ \E c \in Conns : SendFailsPeer(c)

Spec == Init /\ [][Next]_vars

SpecCodec == InitCodec /\ [][Serve]_vars

\* what the peers of the session-lifecycle scenarios send: a message, a file,
\* a file whose payload stops short, and a header line that stops short
LifeItems ==
    { Item("msg", <<>>, <<"h">>),
      Item("file", <<"a">>, <<"x">>),
      Item("raw", TagFILE \o <<"a", BAR, "2", NL>>, <<"x">>),
      Item("raw", <<"M", "S">>, <<>>) }

\* NLife peers, at most MaxItems items between them, connected; they may
\* close later
InitLife ==
    \E sc \in [1..NLife -> Scripts(LifeItems, MaxItems)] :
        /\ Len(Flatten(sc)) <= MaxItems
        /\ InitWith(sc, [c \in 1..NLife |-> Whole(ScriptBytes(sc[c]))],
                    [c \in 1..NLife |-> FALSE])
        /\ NoClient

\* the server with failing saves and its shutdown on KeyboardInterrupt
NextLife ==
    \/ Next
    \/ \E c \in Conns : SaveFails(c)
    \/ Interrupt
    \/ ShutdownAcquire
    \/ ShutdownBody

\* The steps that wait for no peer (taking and leaving clients_lock, the list
\* operations under it, conn.close()) are taken once they can be: the
\* interpreter schedules every runnable thread.  Nothing is assumed of the
\* reads, the sends, the saves and the interrupt.
FairLife ==
    /\ WF_vars(AcceptAcquire) /\ WF_vars(AcceptRegister)
    /\ WF_vars(ShutdownAcquire) /\ WF_vars(ShutdownBody)
    /\ \A c \in 1..NLife :
           /\ WF_vars(BcastAcquire(c)) /\ WF_vars(BcastSnapshot(c))
           /\ WF_vars(RemoveAcquire(c)) /\ WF_vars(RemoveBody(c))
           /\ WF_vars(RemoveClose(c))

SpecLife == InitLife /\ [][NextLife]_vars /\ FairLife

\* what the server relays to the client: a message, a file, a file whose
\* payload stops short
ClientItems ==
    { Item("msg", <<>>, <<"h">>),
      Item("file", <<"a">>, <<"x">>),
      Item("raw", TagFILE \o <<"a", BAR, "2", NL>>, <<"x">>) }

\* a client whose user will type at most MaxChoices answers and whose
\* server sends at most one item, in chunks of MaxChunk bytes
InitClient ==
    \E ch \in UNION {[1..m -> Choices] : m \in 0..MaxChoices},
       sc \in Scripts(ClientItems, 1) :
        /\ InitWith(<<>>, <<>>, <<>>)
        /\ ClientInitWith(ch, Chunks(ScriptBytes(sc), MaxChunk))

NextClient ==
    \/ SenderCheck
    \/ SenderInput
    \/ SendMsg
    \/ SendMsgFails
    \/ SendFileHeader
    \/ SendFileData
    \/ SendFileFails
    \/ SenderClose
    \/ ReceiverCheck
    \/ ReceiverBlocks
    \/ ReceiverPass
    \/ ReceiverFinal
    \/ ProcessExit
    \/ Arrive
    \/ ServerCloses

\* Both threads run when they can: the loop conditions, the finally clauses,
\* a send (that returns or raises), the interpreter's exit; and the user
\* answers the prompt as long as answers are left.  Nothing is assumed of
\* the server nor of the receiver's reads.
FairClient ==
    /\ WF_vars(SenderCheck) /\ WF_vars(SenderInput)
    /\ WF_vars(SendMsg \/ SendMsgFails)
    /\ WF_vars(SendFileHeader \/ SendFileData \/ SendFileFails)
    /\ WF_vars(SenderClose)
    /\ WF_vars(ReceiverCheck) /\ WF_vars(ReceiverFinal)
    /\ WF_vars(ProcessExit)

SpecClient == InitClient /\ [][NextClient]_vars /\ FairClient

\* ------------------------------------------------------------ relay claims
\* session a is inside a broadcast call (its sends, or the remove_client of
\* its except clause)
InBroadcast(a) ==
    \/ pc[a] \in {"bc_hdr", "bc_pay"}
    \/ pc[a] \in {"rm_acq", "rm_body", "rm_close"} /\ rmRet[a] = "bcast"

\* the k-th broadcast call of session a has returned
Returned(a, k) ==
    k \in 1..Len(bcasts[a]) /\ (k < Len(bcasts[a]) \/ ~InBroadcast(a))

\* a sendall wrote that part of frame fno of origin a to connection t
Delivered(t, a, fno, part) ==
    \E i \in 1..Len(wire[t]) :
        wire[t][i].from = a /\ wire[t][i].fno = fno /\ wire[t][i].part = part

\* the k-th broadcast of a wrote its whole frame to t
Reached(t, a, k) ==
    LET fno == bcasts[a][k].fno IN
    /\ Delivered(t, a, fno, "hdr")
    /\ log[a][fno].data # <<>> => Delivered(t, a, fno, "pay")

\* C1: every write of the relay carries the bytes its origin sent (the header
\* line as received, the payload as received) and goes to another connection
\* than the origin; and a broadcast that has returned wrote the frame to
\* every connection of its snapshot whose sends did not raise.
C1_BroadcastVerbatim ==
    /\ \A t \in Conns : \A i \in 1..Len(wire[t]) :
           LET w == wire[t][i] IN
           /\ w.from # t
           /\ w.part = "hdr" => w.bytes = log[w.from][w.fno].line
           /\ w.part = "pay" => w.bytes = log[w.from][w.fno].data
    /\ \A a \in Conns : \A k \in 1..Len(bcasts[a]) :
           Returned(a, k) =>
               \A t \in Range(bcasts[a][k].snap) \ bcasts[a][k].failed : Reached(t, a, k)

\* C2: on every connection, a payload write comes right after the header
\* write of its own frame: no write of another frame lies between them.
C2_WholeFrames ==
    \A t \in Conns : \A i \in 1..Len(wire[t]) :
        wire[t][i].part = "pay" =>
            /\ i > 1
            /\ wire[t][i - 1].part = "hdr"
            /\ wire[t][i - 1].from = wire[t][i].from
            /\ wire[t][i - 1].fno = wire[t][i].fno

\* C3: once a broadcast has returned, every connection a send of it failed on
\* is out of the registry and closed; and every broadcast takes as targets
\* exactly the registered connections other than its origin, and once it has
\* returned has written its frame to each of them that did not fail.
C3_RemovalProperty ==
    \A a \in Conns : \A k \in 1..Len(bcasts[a]) :
        LET b == bcasts[a][k] IN
        /\ Range(b.snap) = Range(b.reg) \ {a}
        /\ Returned(a, k) =>
               /\ \A t \in b.failed : t \notin Range(clients) /\ sockClosed[t]
               /\ \A t \in Range(b.snap) \ b.failed : Reached(t, a, k)

\* a broadcast with a failed send has returned, and the next broadcast of the
\* same origin has returned too, having reached a connection
C3_Witness ==
    \E a \in Conns :
        /\ Len(bcasts[a]) = 2
        /\ Returned(a, 2)
        /\ bcasts[a][1].failed # {}
        /\ \E t \in Range(bcasts[a][2].snap) : Reached(t, a, 2)

\* every target of the k-th broadcast of a before position j of its snapshot
\* has been attempted: the header was written to it, or the send raised
AttemptedBefore(a, k, j) ==
    \A i \in 1..(j - 1) :
        LET t == bcasts[a][k].snap[i] IN
        t \in bcasts[a][k].failed \/ Delivered(t, a, bcasts[a][k].fno, "hdr")

C4_State ==
    \A a \in Conns : \A k \in 1..Len(bcasts[a]) :
        /\ Returned(a, k) => AttemptedBefore(a, k, Len(bcasts[a][k].snap) + 1)
        /\ ~Returned(a, k) => AttemptedBefore(a, k, ti[a])

C4_Step ==
    \A a \in Conns :
        InBroadcast(a) => (InBroadcast(a)' \/ (pc'[a] = "read" /\ endWhy'[a] = "none"))

\* C4: whatever sends fail, a broadcast goes through its whole snapshot (every
\* target is written to or its send raised), and when it ends the origin's
\* session is back at the head of its loop, not ended.
C4_SendFailureIsLocal == []C4_State /\ [][C4_Step]_vars

\* a broadcast whose first target failed has written to its second target
\* and returned, and its origin has decoded its next frame
C4_Witness ==
    \E a \in Conns :
        /\ Len(bcasts[a]) >= 1
        /\ Len(bcasts[a][1].snap) = 2
        /\ bcasts[a][1].snap[1] \in bcasts[a][1].failed
        /\ Reached(bcasts[a][1].snap[2], a, 1)
        /\ Len(log[a]) > bcasts[a][1].fno
        /\ log[a][Len(log[a])].kind \in {"msg", "file"}

\* ------------------------------------------------------------ ordering and registry claims
\* the broadcast call of session a that relays its frame fno
BcastOf(a, fno) == CHOOSE k \in 1..Len(bcasts[a]) : bcasts[a][k].fno = fno

\* the relay of frame fno of origin a to connection t is over: the broadcast
\* has returned, and it wrote the whole frame to t or its send to t raised
RelayOver(t, a, fno) ==
    LET k == BcastOf(a, fno) IN
    /\ Returned(a, k)
    /\ Reached(t, a, k) \/ t \in bcasts[a][k].failed

\* C11: on every connection the writes of one origin come in the order the
\* origin's session decoded the frames, a frame's header before its payload
\* and each part once; and when a write of a later frame of the origin is
\* there, the relay of every earlier frame of it to that connection is over.
C11_PerOriginFIFO ==
    \A t \in Conns : \A i, j \in 1..Len(wire[t]) :
        (i < j /\ wire[t][i].from = wire[t][j].from) =>
            /\ wire[t][i].fno <= wire[t][j].fno
            /\ wire[t][i].fno = wire[t][j].fno =>
                   wire[t][i].part = "hdr" /\ wire[t][j].part = "pay"
            /\ wire[t][i].fno < wire[t][j].fno =>
                   RelayOver(t, wire[t][i].from, wire[t][i].fno)

\* a connection was written a file frame of an origin, header then payload,
\* and after them the next frame of the same origin
C11_Witness ==
    \E t \in Conns : \E i, j, l \in 1..Len(wire[t]) :
        /\ i < j /\ j < l
        /\ wire[t][i].from = wire[t][j].from /\ wire[t][j].from = wire[t][l].from
        /\ wire[t][i].fno = wire[t][j].fno /\ wire[t][j].fno < wire[t][l].fno
        /\ wire[t][i].part = "hdr" /\ wire[t][j].part = "pay"

C12_State ==
    \A i, j \in 1..Len(clients) : i # j => clients[i] # clients[j]

C12_Step ==
    \A c \in Conns :
        pc[c] = "rm_body" =>
            LET Keep(x) == x # rmConn[c] IN
            \/ pc'[c] = "rm_body" /\ clients' = clients
            \/ /\ pc'[c] = "rm_close"
               /\ clients' = SelectSeq(clients, Keep)
               /\ rmConn[c] \notin Range(clients) => clients' = clients

\* C12: no connection is twice in clients; and the list update of every
\* remove_client call takes out its argument and nothing else, leaves the
\* list as it is when the argument is not in it, and goes on to conn.close().
C12_RegistryInvariant == []C12_State /\ [][C12_Step]_vars

\* two threads are past the list update of remove_client for the same
\* connection, one from a failed send and one from the connection's own
\* session ending, while another connection is still registered
C12_Witness ==
    \E a, t \in Conns :
        /\ a # t
        /\ pc[a] = "rm_close" /\ rmConn[a] = t /\ rmRet[a] = "bcast"
        /\ pc[t] = "rm_close" /\ rmConn[t] = t /\ rmRet[t] = "exit"
        /\ t \notin Range(clients)
        /\ clients # <<>>

\* a thread is in (or about to enter) a sendall of broadcast
Sending(c) == pc[c] \in {"bc_hdr", "bc_pay"}

\* C13: clients_lock is held only inside the with blocks (by the accept loop
\* at its append, by a session at the snapshot or the list update), never by
\* a thread that is in a send; so whenever a thread is in a send the lock is
\* free or held by a thread that is about to release it.
C13_LockNotHeldAcrossSend ==
    /\ \A c \in Conns : Sending(c) => clients_lock # c
    /\ \A c \in Conns : clients_lock = c => pc[c] \in {"bc_snap", "rm_body"}
    /\ clients_lock = AcceptThread => accPc \in {"append", "sd_body"}
    /\ clients_lock \in {0, AcceptThread} \cup Conns

\* while one session is in a send, the accept loop holds the lock to register
\* a connection, and another session has unregistered a connection meanwhile
C13_Witness ==
    \E c \in Conns :
        /\ Sending(c)
        /\ clients_lock = AcceptThread
        /\ \E d \in Conns \ {c} : \E t \in Range(targets[c]) :
               pc[d] = "rm_close" /\ rmConn[d] = t /\ t \notin Range(clients)

\* C18: the origin of every broadcast was in clients when the broadcast took
\* its snapshot.
C18_OnlyRegisteredOriginate ==
    \A a \in Conns : \A k \in 1..Len(bcasts[a]) : a \in Range(bcasts[a][k].reg)

C19_Step ==
    \A c \in Conns :
        (pc[c] = "write" /\ pc'[c] = "bc_acq") => savePath[c] \notin DOMAIN disk

\* C19: every save opens a path that does not exist at that moment.
C19_NeverOverwritten == [][C19_Step]_vars

\* ------------------------------------------------------------ codec claims
\* the header line an item puts on the stream, and the bytes after it
ItemLine(it) == SubSeq(ItemBytes(it), 1, Find(ItemBytes(it), NL))
ItemRest(it) == SubSeq(ItemBytes(it), Find(ItemBytes(it), NL) + 1, Len(ItemBytes(it)))

\* a header that is none of the protocol's: an unknown tag, a FILE header
\* that does not split into 3 fields, or one whose size is no number
MalformedHeader(h) ==
    \/ ~StartsWith(h, TagMSG) /\ ~StartsWith(h, TagFILE)
    \/ StartsWith(h, TagFILE) /\ Len(Split(h)) # 3
    \/ StartsWith(h, TagFILE) /\ Len(Split(h)) = 3 /\ ~ParseInt(Split(h)[3]).ok

\* a frame as the protocol writes it: a message, or a file whose name holds
\* no separator
GoodItem(it) ==
    \/ it.k = "msg"
    \/ it.k = "file" /\ BAR \notin Range(it.name) /\ NL \notin Range(it.name)

BadItem(it) ==
    ~GoodItem(it) /\ MalformedHeader(RStripNL(Utf8Decode(ItemLine(it))))

Frame(kind, filename, size, data, text) ==
    [kind |-> kind, filename |-> filename, size |-> size, data |-> data, text |-> text]

\* the frame a message or file item stands for
ExpectFrame(it) ==
    IF it.k = "msg" THEN Frame("msg", <<>>, 0, <<>>, ReplaceNL(it.body))
    ELSE Frame("file", it.name, Len(it.body), it.body, <<>>)

FrameOf(e) == Frame(e.kind, e.filename, e.size, e.data, e.text)

IsFrame(e) == e.kind \in {"msg", "file"}

\* the frames session c has decoded, in order
Frames(c) ==
    LET fs == SelectSeq(log[c], IsFrame) IN [i \in 1..Len(fs) |-> FrameOf(fs[i])]

\* the frames of the well-formed items of a script, in order
Expected(sc) ==
    LET gs == SelectSeq(sc, GoodItem) IN [i \in 1..Len(gs) |-> ExpectFrame(gs[i])]

IsPrefix(a, b) == Len(a) <= Len(b) /\ SubSeq(b, 1, Len(a)) = a

\* on a stream of well-formed frames and malformed items, session c skips
\* the malformed ones and decodes every well-formed frame
SkipsMalformed(c) ==
    /\ IsPrefix(Frames(c), Expected(script[c]))
    /\ endWhy[c] = "closed" => Frames(c) = Expected(script[c])
    /\ (log[c] # <<>> /\ log[c][Len(log[c])].kind = "warn") => pc[c] = "read"

\* C5 as stated: whatever bytes a malformed item holds (its header line and
\* anything after it), the session goes on and decodes the well-formed
\* frames around it.
C5_AnyMalformedBytes ==
    \A c \in Conns :
        (\A i \in 1..Len(script[c]) : GoodItem(script[c][i]) \/ BadItem(script[c][i]))
            => SkipsMalformed(c)

\* C5, amended: a malformed header line with no bytes of its own after it
\* never ends the session, and the well-formed frames before and after it
\* are decoded as sent.
C5_MalformedHeaderSkipped ==
    \A c \in Conns :
        (\A i \in 1..Len(script[c]) :
            \/ GoodItem(script[c][i])
            \/ BadItem(script[c][i]) /\ ItemRest(script[c][i]) = <<>>)
            => SkipsMalformed(c)

\* a malformed header was skipped and the frame after it decoded
C5_Witness ==
    \E c \in Conns :
        /\ Len(script[c]) = 2 /\ Len(log[c]) >= 2
        /\ BadItem(script[c][1]) /\ ItemRest(script[c][1]) = <<>>
        /\ GoodItem(script[c][2])
        /\ log[c][1].kind = "warn"
        /\ FrameOf(log[c][2]) = ExpectFrame(script[c][2])

\* C6: every FileTransfer frame the decoder produces has a length that is
\* not negative and a payload of that many bytes.
C6_NonNegativeLength ==
    \A c \in Conns : \A i \in 1..Len(log[c]) :
        log[c][i].kind = "file" =>
            log[c][i].size >= 0 /\ Len(log[c][i].data) = log[c][i].size

\* what a Stream Reader call gave its caller
CallView(call) == [op |-> call.op, n |-> call.n, st |-> call.st, val |-> call.val]

\* C7: two connections that receive the same bytes, chunked differently,
\* see the same results call by call.
C7_ChunkingInvariance ==
    \A c \in Conns, d \in Conns :
        ScriptBytes(script[c]) = ScriptBytes(script[d]) =>
            \A i \in 1..Min(Len(calls[c]), Len(calls[d])) :
                CallView(calls[c][i]) = CallView(calls[d][i])

\* the bytes recv has handed to connection c so far
Received(c) ==
    SubSeq(ScriptBytes(script[c]), 1, Len(ScriptBytes(script[c])) - Len(Flatten(net[c])))

\* the bytes the Stream Reader calls of c returned, in order
ReturnedBytes(c) == Flatten([i \in 1..Len(calls[c]) |-> calls[c][i].raw])

\* the same, with the bytes a raising call had collected
AccountedBytes(c) ==
    Flatten([i \in 1..Len(calls[c]) |-> calls[c][i].raw \o calls[c][i].dropped])

\* C8 as stated: the returned values, then the accumulator, are the bytes
\* received, and no byte reaches a caller without passing the accumulator.
C8_AllThroughAccumulator ==
    \A c \in Conns :
        /\ ReturnedBytes(c) \o buffer[c] = Received(c)
        /\ \A i \in 1..Len(calls[c]) : calls[c][i].direct = 0

\* C8, amended: the bytes received are, in stream order, the bytes returned
\* to callers, the bytes a recv_exact that raised had collected, and the
\* accumulator: none is returned twice, reordered or lost otherwise.
C8_ByteConservation ==
    \A c \in Conns : AccountedBytes(c) \o buffer[c] = Received(c)

\* a recv_exact returned a payload taken partly from the accumulator and
\* partly from the socket
C8_Witness ==
    \E c \in Conns : \E i \in 1..Len(calls[c]) :
        /\ calls[c][i].op = "exact" /\ calls[c][i].st = "ok"
        /\ calls[c][i].direct > 0
        /\ Len(calls[c][i].raw) > calls[c][i].direct

\* the items of sc before the i-th are well-formed frames
GoodBefore(sc, i) == \A j \in 1..(i - 1) : GoodItem(sc[j])

\* C9: a file the sender encodes, with whatever name, is decoded into the
\* FileTransfer frame of that name, length and payload.
C9_FileRoundTrip ==
    \A c \in Conns : \A i \in 1..Len(script[c]) :
        (/\ GoodBefore(script[c], i)
         /\ script[c][i].k = "file"
         /\ Len(log[c]) >= i
         /\ log[c][i].kind # "raise")
            => FrameOf(log[c][i]) = ExpectFrame(script[c][i])

\* the relayed header of a message, decoded by the receive loop of the
\* client it is written to
ClientDecode(bytes) == DecodeFrame(<<>>, <<bytes>>, TRUE, FALSE)

\* C10: a message the sender encodes is decoded, from exactly its bytes, into
\* one Message frame whose text is the original with newlines turned into
\* spaces, bars kept; and the header the server relays decodes to the same
\* text on the receiving client.
C10_MessageRoundTrip ==
    /\ \A c \in Conns : \A i \in 1..Len(script[c]) :
           (GoodBefore(script[c], i) /\ script[c][i].k = "msg" /\ Len(log[c]) >= i)
               => /\ FrameOf(log[c][i]) = ExpectFrame(script[c][i])
                  /\ log[c][i].raw = ItemBytes(script[c][i])
    /\ \A t \in Conns : \A i \in 1..Len(wire[t]) :
           LET e == log[wire[t][i].from][wire[t][i].fno] IN
           e.kind = "msg" =>
               /\ ClientDecode(wire[t][i].bytes).kind = "msg"
               /\ ClientDecode(wire[t][i].bytes).text = e.text

\* a message holding a bar and a newline was decoded and relayed
C10_Witness ==
    \E c \in Conns, t \in Conns :
        /\ Len(log[c]) >= 1 /\ Len(script[c]) >= 1
        /\ script[c][1] = Item("msg", <<>>, <<BAR, NL, "h">>)
        /\ log[c][1].text = <<BAR, " ", "h">>
        /\ Delivered(t, c, 1, "hdr")

\* ------------------------------------------------------------ zero and absent size
\* FILE|a|0, and FILE|a| and FILE|a, as header lines on the stream
ZeroHeader == TagFILE \o <<"a", BAR, "0", NL>>
AbsentHeaders == {TagFILE \o <<"a", BAR, NL>>, TagFILE \o <<"a", NL>>}

\* every item of the script before the i-th gives exactly one pass of the
\* loop, so the i-th pass starts at the first byte of the i-th item
Aligned(sc, i) ==
    /\ i <= Len(sc)
    /\ \A j \in 1..(i - 1) : GoodItem(sc[j]) \/ ItemBytes(sc[j]) \in AbsentHeaders

\* frame fno of session c is nowhere relayed
NotRelayed(c, fno) ==
    /\ \A k \in 1..Len(bcasts[c]) : bcasts[c][k].fno # fno
    /\ \A t \in Conns : \A i \in 1..Len(wire[t]) :
           ~(wire[t][i].from = c /\ wire[t][i].fno = fno)

C17_State ==
    \A c \in Conns : \A i \in 1..Len(log[c]) :
        LET e == log[c][i] IN
        /\ (Aligned(script[c], i) /\ ItemBytes(script[c][i]) \in {ZeroHeader} \cup AbsentHeaders)
               => e.line = ItemBytes(script[c][i])
        /\ e.line = ZeroHeader =>
               /\ e.kind = "file" /\ e.size = 0 /\ e.data = <<>> /\ e.raw = e.line
               /\ \E j \in 1..Len(calls[c]) :
                      /\ calls[c][j].op = "exact" /\ calls[c][j].n = 0
                      /\ calls[c][j].st = "ok" /\ calls[c][j].val = <<>>
               /\ \A t \in Conns : \A j \in 1..Len(wire[t]) :
                      (wire[t][j].from = c /\ wire[t][j].fno = i) =>
                          wire[t][j].part = "hdr" /\ wire[t][j].bytes = ZeroHeader
               /\ \A k \in 1..Len(bcasts[c]) :
                      (bcasts[c][k].fno = i /\ Returned(c, k)) =>
                          \A t \in Range(bcasts[c][k].snap) \ bcasts[c][k].failed :
                              Delivered(t, c, i, "hdr")
               /\ (i < Len(log[c]) \/ pc[c] \in {"read", "done"}) =>
                      \E k \in 1..Len(bcasts[c]) : bcasts[c][k].fno = i
        /\ e.line \in AbsentHeaders =>
               /\ e.kind = "warn" /\ e.raw = e.line
               /\ NotRelayed(c, i)
               /\ i = Len(log[c]) => pc[c] = "read"
        /\ (e.line \in {ZeroHeader} \cup AbsentHeaders /\ Aligned(script[c], i + 1)
              /\ i < Len(log[c]) /\ GoodItem(script[c][i + 1])) =>
               /\ IsFrame(log[c][i + 1])
               /\ FrameOf(log[c][i + 1]) = ExpectFrame(script[c][i + 1])

C17_Step ==
    \A c \in Conns :
        /\ (pc[c] = "write" /\ pc'[c] = "bc_acq" /\ log[c][Len(log[c])].line = ZeroHeader)
               => savePath[c] \in DOMAIN disk' /\ disk'[savePath[c]] = <<>>
        /\ (Len(log'[c]) > Len(log[c]) /\ log'[c][Len(log'[c])].line \in AbsentHeaders)
               => disk' = disk /\ wire' = wire /\ pc'[c] = "read"

\* C17: a header FILE|a|0 is a file frame of size 0 with an empty payload,
\* read by a recv_exact(0) that returns nothing and consumes nothing beyond
\* the header line; it is saved as an empty file and relayed as its header
\* alone.  A header FILE|a| or FILE|a is skipped with a warning: no frame, no
\* save, no relay.  After either, the next well-formed frame of the stream is
\* decoded from the byte after the header line.
C17_ZeroVersusAbsent == []C17_State /\ [][C17_Step]_vars

\* a session has decoded FILE|a|0, saved it and relayed its header to the
\* other connection, and then skipped the FILE|a| that follows it
C17_Witness ==
    \E c \in Conns :
        /\ Len(log[c]) = 2
        /\ log[c][1].line = ZeroHeader /\ log[c][1].kind = "file"
        /\ log[c][2].line \in AbsentHeaders /\ log[c][2].kind = "warn"
        /\ Returned(c, 1)
        /\ \E t \in Conns \ {c} : Delivered(t, c, 1, "hdr")
        /\ \E q \in DOMAIN disk : disk[q] = <<>>

\* ------------------------------------------------------------ session lifecycle claims
\* session c has left its loop and is in the remove_client of its finally clause
Terminating(c) ==
    pc[c] \in {"rm_acq", "rm_body", "rm_close"} /\ rmRet[c] = "exit" /\ rmConn[c] = c

Terminated(c) == pc[c] = "done"

\* the last pass of session c's loop
LastPass(c) == log[c][Len(log[c])]

C14_State ==
    \A c \in Conns :
        /\ \A i \in 1..Len(log[c]) :
               log[c][i].st = "closed" => i = Len(log[c]) /\ endWhy[c] = "closed"
        /\ endWhy[c] = "closed" =>
               /\ LastPass(c).kind = "raise" /\ LastPass(c).st = "closed"
               /\ Terminating(c) \/ Terminated(c)
        /\ Terminated(c) => c \notin Range(clients) /\ sockClosed[c]

C14_Step ==
    \A c \in Conns :
        /\ Terminated(c) => Terminated(c)'
        /\ (endWhy'[c] = "closed" /\ pc'[c] # pc[c]) =>
               /\ accPc' = accPc
               /\ \A d \in Conns \ {c} : pc'[d] = pc[d] /\ endWhy'[d] = endWhy[d]

C14_Live ==
    \A c \in 1..NLife :
        (endWhy[c] = "closed") ~> (Terminated(c) \/ accPc = "sd_done")

\* C14: a zero-byte read, in recv_line or in recv_exact, is the last pass of
\* the session's loop and takes it to the remove_client of its finally
\* clause; from there the session reaches its end (unless the server shuts
\* down first), where its connection is out of clients and closed, and which
\* it never leaves; its steps on the way move no other session and not the
\* accept loop.
C14_SessionTermination == []C14_State /\ [][C14_Step]_vars /\ C14_Live

\* a session ended by its peer closing in the middle of a payload has
\* terminated, and the session of a connection registered after it has
\* relayed a frame since
C14_Witness ==
    \E c, d \in Conns :
        /\ c < d
        /\ Terminated(c) /\ endWhy[c] = "closed"
        /\ calls[c][Len(calls[c])].op = "exact" /\ calls[c][Len(calls[c])].dropped # <<>>
        /\ Len(bcasts[d]) >= 1 /\ Returned(d, 1)
        /\ c \notin Range(bcasts[d][1].reg)

C16_State ==
    \A c \in Conns :
        endWhy[c] = "save" =>
            /\ LastPass(c).kind = "file"
            /\ NotRelayed(c, Len(log[c]))
            /\ Terminating(c) \/ Terminated(c)
            /\ Terminated(c) => c \notin Range(clients) /\ sockClosed[c]

C16_Step ==
    \A c \in Conns :
        (endWhy'[c] = "save" /\ pc'[c] # pc[c]) =>
            /\ accPc' = accPc /\ wire' = wire
            /\ \A d \in Conns \ {c} :
                   pc'[d] = pc[d] /\ endWhy'[d] = endWhy[d] /\ buffer'[d] = buffer[d]

C16_Live ==
    \A c \in 1..NLife :
        (endWhy[c] = "save") ~> (Terminated(c) \/ accPc = "sd_done")

\* C16: when the save of a decoded file raises, the frame is relayed to
\* nobody, the session goes to the remove_client of its finally clause and
\* from there to its end (unless the server shuts down first), its
\* connection out of clients and closed; its steps on the way move no other
\* session and write to no connection.
C16_SaveFailureIsLocal == []C16_State /\ [][C16_Step]_vars /\ C16_Live

\* a session whose save failed has terminated, and the session of a
\* connection registered after it has decoded and relayed a frame since
C16_Witness ==
    \E c, d \in Conns :
        /\ c < d
        /\ Terminated(c) /\ endWhy[c] = "save"
        /\ Len(bcasts[d]) >= 1 /\ Returned(d, 1)
        /\ c \notin Range(bcasts[d][1].reg)

\* ------------------------------------------------------------ lock claims
\* the thread (a session, or the main thread in start or shutdown) is at a
\* `with self.clients_lock` and has not entered it yet
WaitsForLock(th) ==
    IF th = AcceptThread THEN accPc = "sd_acq"
    ELSE pc[th] \in {"bc_acq", "rm_acq"}

\* the thread is inside a with block: all it does there is a list operation
\* (and, in shutdown, close()), then it leaves the block
InsideWith(th) ==
    IF th = AcceptThread THEN accPc \in {"append", "sd_body"}
    ELSE pc[th] \in {"bc_snap", "rm_body"}

C20_State ==
    \A th \in Conns \cup {AcceptThread} :
        /\ WaitsForLock(th) => clients_lock # th
        /\ clients_lock = th <=> InsideWith(th)

C20_Live ==
    /\ \A th \in (1..NLife) \cup {AcceptThread} : WaitsForLock(th) ~> (clients_lock = th)
    /\ (clients_lock # 0) ~> (clients_lock = 0)

\* C20: no thread is at an acquisition of clients_lock while it holds the
\* lock; the lock is held exactly by the thread that is inside a with block,
\* where no read and no send happens; every holder releases the lock and
\* every thread waiting for it gets it.
C20_NoLockDeadlock == []C20_State /\ C20_Live

\* a session is at the remove_client of broadcast's except clause, waiting
\* for the lock that shutdown holds
C20_Witness ==
    \E c \in Conns :
        /\ pc[c] = "rm_acq" /\ rmRet[c] = "bcast"
        /\ clients_lock = AcceptThread /\ accPc = "sd_body"

\* ------------------------------------------------------------ client claims
\* the receive loop is over: by its finally clause, or with the process
ReceiverOver == rpc \in {"ended", "killed"}

\* the sender waits at a prompt the user never answers
UserIdle == spc = "input" /\ choices = <<>>

C15_State ==
    /\ rpc = "ended" => ~_running
    /\ spc = "exited" => cconnClosed
    /\ \A i, j \in 1..Len(csent) :
           (~csent[i].running /\ ~csent[j].running) => csent[i].iter = csent[j].iter
    /\ \A i \in 1..Len(clog) : ~clog[i].running => i = Len(clog)

C15_Step ==
    /\ ~_running => ~_running'
    /\ (~_running /\ spc = "check") => spc' \in {"check", "close"}
    /\ (~_running /\ rpc = "check") => rpc' \in {"check", "final", "killed"}
    /\ spc = "exited" => spc' = "exited"
    /\ ReceiverOver => rpc' = rpc
    /\ iter' # iter => _running

C15_Live ==
    /\ (rpc = "ended") ~> (spc = "exited" \/ UserIdle)
    /\ (spc = "exited") ~> ReceiverOver

\* C15: once the receive loop has ended, _running is False and stays so; with
\* the flag down the sender loop starts no iteration (its sends after that
\* moment all belong to the one iteration that was in progress), leaves its
\* loop at the next evaluation of the condition and closes the connection,
\* unless it waits at a prompt the user never answers; and once the sender
\* has exited, the receive loop is over too: it starts no pass with the flag
\* down, and ends by an error of its read, by the flag, or with the process.
C15_ClientTermination == []C15_State /\ [][C15_Step]_vars /\ C15_Live

\* the receive loop ended on the server's close while the sender was in an
\* iteration; the sender finished that iteration (its send went out with the
\* flag already down), then left its loop and closed the connection
C15_Witness ==
    /\ rpc = "ended"
    /\ spc = "exited"
    /\ cconnClosed
    /\ iter = 1
    /\ csent # <<>> /\ ~csent[1].running
    /\ choices # <<>>

====
